---- MODULE Spec2Model ----
(***************************************************************************)
(* Model of the mono-macro crate (src/src/lib.rs): the attribute macro     *)
(* #[mono(..)] and the function-like macro mono_macro!(..).                *)
(*                                                                         *)
(* A compilation unit is a token stream of items.  An item that still      *)
(* carries #[mono(..)] attributes, or a mono_macro!(..) call, is replaced  *)
(* in the stream by the tokens the macro returns for it.                   *)
(***************************************************************************)
EXTENDS Integers, Sequences, FiniteSets, TLC

VARIABLES stream, log, src

vars == <<stream, log, src>>

(***************************************************************************)
(* Bounds of the explored inputs.                                          *)
(***************************************************************************)
MaxEqs == 3
MaxRawToks == 3
MaxGenerics == 2
MaxStack == 3
MaxCalls == 3

SeqsUpTo(S, n) == UNION {[1..k -> S] : k \in 0..n}

Min(S) == CHOOSE x \in S : \A y \in S : x <= y

(***************************************************************************)
(* Tokens.  An attribute argument list is a sequence of tokens.            *)
(***************************************************************************)
Tok(k, n) == [k |-> k, n |-> n]
TokEq == Tok("eq", "=")
TokComma == Tok("comma", ",")
TokLit == Tok("lit", "1")

\* enum TypeOrLifetime { Type(Ident), Lifetime(syn::Lifetime) }
Type(n) == [k |-> "Type", n |-> n]
Lifetime(n) == [k |-> "Lifetime", n |-> n]

\* struct TypeEqTo { type_or_lifetime, eq_token, param }
TypeEqTo(l, r) == [type_or_lifetime |-> l, param |-> r]

\* impl ToTokens for TypeOrLifetime
ToTokens(tol) ==
    IF tol.k = "Lifetime" THEN Tok("lifetime", tol.n) ELSE Tok("ident", tol.n)

ParseErr == [ok |-> FALSE]

\* a lookahead that takes whatever token comes when it is no lifetime
ParseAnyToken(toks) ==
    IF toks = <<>> THEN ParseErr
    ELSE IF Head(toks).k = "lifetime"
         THEN [ok |-> TRUE, val |-> Lifetime(Head(toks).n), rest |-> Tail(toks)]
    ELSE [ok |-> TRUE, val |-> Type(Head(toks).n), rest |-> Tail(toks)]

\* impl Parse for TypeOrLifetime: one token of lookahead
ParseTypeOrLifetime(toks) ==
    IF toks = <<>> THEN ParseErr
    ELSE IF Head(toks).k = "lifetime"
         THEN [ok |-> TRUE, val |-> Lifetime(Head(toks).n), rest |-> Tail(toks)]
    ELSE IF Head(toks).k = "ident"
         THEN [ok |-> TRUE, val |-> Type(Head(toks).n), rest |-> Tail(toks)]
    ELSE ParseErr

\* impl Parse for TypeEqTo: type_or_lifetime, then `=`, then param
ParseTypeEqTo(toks) ==
    LET l == ParseTypeOrLifetime(toks) IN
    IF ~l.ok THEN ParseErr
    ELSE IF l.rest = <<>> \/ Head(l.rest).k # "eq" THEN ParseErr
    ELSE LET r == ParseTypeOrLifetime(Tail(l.rest)) IN
         IF ~r.ok THEN ParseErr
         ELSE [ok |-> TRUE, val |-> TypeEqTo(l.val, r.val), rest |-> r.rest]

\* input.parse_terminated(TypeEqTo::parse): values separated by commas, a
\* trailing comma allowed, the whole input consumed
RECURSIVE ParseTerminated(_, _)
ParseTerminated(toks, acc) ==
    IF toks = <<>> THEN [ok |-> TRUE, eqs |-> acc]
    ELSE LET e == ParseTypeEqTo(toks) IN
         IF ~e.ok THEN ParseErr
         ELSE IF e.rest = <<>> THEN [ok |-> TRUE, eqs |-> Append(acc, e.val)]
         ELSE IF Head(e.rest).k # "comma" THEN ParseErr
         ELSE ParseTerminated(Tail(e.rest), Append(acc, e.val))

\* impl Parse for TypeEqs
ParseTypeEqs(attr) == ParseTerminated(attr, <<>>)

\* parse_macro_input!(input as ItemFn): the item must be a function
ParseItemFn(func) ==
    IF func.k = "item" /\ func.kind = "fn"
    THEN [ok |-> TRUE, sig |-> [ident |-> func.ident, generics |-> func.generics]]
    ELSE ParseErr

(***************************************************************************)
(* Emitted tokens.                                                         *)
(***************************************************************************)
ParseErrorMsg == "syn parse error"
SpelledOutMsg == "all the type parameters should be spelled out"

CompileError(msg) == [k |-> "compile_error", msg |-> msg]

\* #(#params,)* : every param followed by a comma
RECURSIVE ParamTokens(_)
ParamTokens(params) ==
    IF params = <<>> THEN <<>>
    ELSE <<ToTokens(Head(params)), TokComma>> \o ParamTokens(Tail(params))

\* pub const _: *const () = (&#func_ident::<#(#params,)*>) as *const _ as _;
ConstOfFn(func_ident, params) ==
    [k |-> "const", form |-> "turbofish", callee |-> <<Tok("ident", func_ident)>>,
     args |-> ParamTokens(params)]

\* pub const _: *const () = (&#path) as *const _ as _;
ConstOfPath(path) ==
    [k |-> "const", form |-> "path", callee |-> path, args |-> <<>>]

(***************************************************************************)
(* #[mono(..)]: the matching pass and the expansion.                       *)
(***************************************************************************)
\* the closure given to find: only a type parameter and a Type entry with
\* the same identifier match; every other pair is (_, _) => false
Matches(g, tol) == g.k = "Type" /\ tol.k = "Type" /\ g.n = tol.n

Max(S) == CHOOSE x \in S : \A y \in S : x >= y

\* a search that keeps the last matching entry
FindEqLast(g, eqs) ==
    LET hits == {j \in DOMAIN eqs : Matches(g, eqs[j].type_or_lifetime)} IN
    IF hits = {} THEN 0 ELSE Max(hits)

\* mono_attr.eqs.iter().find(..): the index of the first matching entry, 0 if none
FindEq(g, eqs) ==
    LET hits == {j \in DOMAIN eqs : Matches(g, eqs[j].type_or_lifetime)} IN
    IF hits = {} THEN 0 ELSE Min(hits)

\* a pass that walks the entries and pushes them in written order
MatchLoopWritten(generics, eqs, i, params) ==
    LET Named(eq) == \E p \in DOMAIN generics : Matches(generics[p], eq.type_or_lifetime)
        hit == SelectSeq(eqs, Named)
        missing == {p \in DOMAIN generics :
                       generics[p].k = "Type" /\ FindEq(generics[p], eqs) = 0}
    IN  IF missing # {} THEN [ok |-> FALSE, scanned |-> Min(missing)]
        ELSE [ok |-> TRUE, params |-> [j \in DOMAIN hit |-> hit[j].param],
              scanned |-> Len(generics)]

\* a pass that looks at every parameter before it reports a missing one
MatchLoopCollect(generics, eqs, i, params) ==
    LET Found(g) == FindEq(g, eqs) # 0
        m == SelectSeq(generics, Found)
        missing == {p \in DOMAIN generics :
                       generics[p].k = "Type" /\ FindEq(generics[p], eqs) = 0}
    IN  IF missing # {} THEN [ok |-> FALSE, scanned |-> Len(generics)]
        ELSE [ok |-> TRUE, params |-> [p \in DOMAIN m |-> eqs[FindEq(m[p], eqs)].param],
              scanned |-> Len(generics)]

\* a pass that fails on an unmatched parameter of any kind
MatchLoopStrict(generics, eqs, i, params) ==
    LET missing == {p \in DOMAIN generics : FindEq(generics[p], eqs) = 0}
    IN  IF missing # {} THEN [ok |-> FALSE, scanned |-> Min(missing)]
        ELSE [ok |-> TRUE, params |-> [p \in DOMAIN generics |->
                                          eqs[FindEq(generics[p], eqs)].param],
              scanned |-> Len(generics)]

\* for g in fn_sig.generics.params: scanned is the number of parameters the
\* loop has looked at when it ends or returns
RECURSIVE MatchLoop(_, _, _, _)
MatchLoop(generics, eqs, i, params) ==
    IF i > Len(generics)
    THEN [ok |-> TRUE, params |-> params, scanned |-> Len(generics)]
    ELSE LET g == generics[i]
             j == FindEq(g, eqs)
         IN  IF j # 0 THEN MatchLoop(generics, eqs, i + 1, Append(params, eqs[j].param))
             ELSE IF g.k = "Type" THEN [ok |-> FALSE, scanned |-> i]
             ELSE MatchLoop(generics, eqs, i + 1, params)

\* mono up to the quoted constant: the two parse_macro_input!, the matching
\* pass, and the constant built from the collected params
MonoSteps(attr, func) ==
    LET mono_attr == ParseTypeEqs(attr) IN
    IF ~mono_attr.ok THEN [ok |-> FALSE, msg |-> ParseErrorMsg, scanned |-> 0]
    ELSE LET input == ParseItemFn(func) IN
    IF ~input.ok THEN [ok |-> FALSE, msg |-> ParseErrorMsg, scanned |-> 0]
    ELSE LET m == MatchLoop(input.sig.generics, mono_attr.eqs, 1, <<>>) IN
    IF ~m.ok THEN [ok |-> FALSE, msg |-> SpelledOutMsg, scanned |-> m.scanned]
    ELSE [ok |-> TRUE, const |-> ConstOfFn(input.sig.ident, m.params),
          scanned |-> m.scanned]

\* an expansion that emits the function again from what it parsed of it,
\* without the attributes still attached
MonoReemitParsed(attr, func) ==
    LET r == MonoSteps(attr, func) IN
    IF ~r.ok THEN [tokens |-> <<CompileError(r.msg)>>, scanned |-> r.scanned]
    ELSE [tokens |-> <<r.const, [func EXCEPT !.attrs = <<>>]>>, scanned |-> r.scanned]

\* an expansion that emits the function before the constant
MonoItemFirst(attr, func) ==
    LET r == MonoSteps(attr, func) IN
    IF ~r.ok THEN [tokens |-> <<CompileError(r.msg)>>, scanned |-> r.scanned]
    ELSE [tokens |-> <<func, r.const>>, scanned |-> r.scanned]

\* an expansion that emits the item after its diagnostic
MonoKeepItem(attr, func) ==
    LET r == MonoSteps(attr, func) IN
    IF ~r.ok THEN [tokens |-> <<CompileError(r.msg), func>>, scanned |-> r.scanned]
    ELSE [tokens |-> <<r.const, func>>, scanned |-> r.scanned]

\* pub fn mono(attr, func) -> TokenStream: a failure returns the error alone,
\* a success the constant with the tokens of func appended (expand.extend(func))
Mono(attr, func) ==
    LET r == MonoSteps(attr, func) IN
    IF ~r.ok THEN [tokens |-> <<CompileError(r.msg)>>, scanned |-> r.scanned]
    ELSE [tokens |-> <<r.const>> \o <<func>>, scanned |-> r.scanned]

(***************************************************************************)
(* mono_macro!(..)                                                         *)
(***************************************************************************)
\* sample inputs syn accepts as a TypePath: foo::<i32, u8> (tests/bare.rs)
\* and <Foo<'static> as Tr<i32>>::foo (tests/trait.rs)
TypePaths ==
    { <<"foo", "::", "<", "i32", ",", "u8", ">">>,
      <<"<", "Foo", "<", "'static", ">", "as", "Tr", "<", "i32", ">", ">", "::", "foo">> }

\* sample inputs syn rejects as a TypePath
NonPaths == { <<"<", "Foo", "as">>, <<"1", "+", "1">> }

\* parse_macro_input!(input as TypePath)
ParseTypePath(input) ==
    IF input \in TypePaths THEN [ok |-> TRUE, path |-> input] ELSE ParseErr

\* an expansion that numbers its declarations by the expansions made so far
MonoMacroCounted(input) ==
    LET path == ParseTypePath(input) IN
    IF ~path.ok THEN <<CompileError(ParseErrorMsg)>>
    ELSE <<[ConstOfPath(path.path) EXCEPT !.args = <<Tok("lit", ToString(Len(log)))>>]>>

\* pub fn mono_macro(input) -> TokenStream
MonoMacro(input) ==
    LET path == ParseTypePath(input) IN
    IF ~path.ok THEN <<CompileError(ParseErrorMsg)>>
    ELSE <<ConstOfPath(path.path)>>

(***************************************************************************)
(* The items of a compilation unit.                                        *)
(***************************************************************************)
\* an item with its stack of #[mono(..)] attributes, outermost first
Item(kind, attrs, ident, generics) ==
    [k |-> "item", kind |-> kind, attrs |-> attrs, vis |-> "pub", ident |-> ident,
     generics |-> generics, body |-> "{}"]

MacroCall(input) == [k |-> "macro_call", input |-> input]

Splice(s, i, tokens) == SubSeq(s, 1, i - 1) \o tokens \o SubSeq(s, i + 1, Len(s))

\* the compiler expands the outermost #[mono(..)] of the item at i: the
\* macro gets the attribute's arguments and the item without that attribute,
\* and what it returns replaces the item
ExpandAttr(i) ==
    /\ stream[i].k = "item"
    /\ stream[i].attrs # <<>>
    /\ LET attr == Head(stream[i].attrs)
           func == [stream[i] EXCEPT !.attrs = Tail(stream[i].attrs)]
           r == Mono(attr, func)
       IN  /\ stream' = Splice(stream, i, r.tokens)
           /\ log' = Append(log, [macro |-> "mono", attr |-> attr, func |-> func,
                                  out |-> r.tokens, scanned |-> r.scanned])
    /\ UNCHANGED src

\* the compiler expands the mono_macro!(..) call at i
ExpandPath(i) ==
    /\ stream[i].k = "macro_call"
    /\ LET out == MonoMacro(stream[i].input)
       IN  /\ stream' = Splice(stream, i, out)
           /\ log' = Append(log, [macro |-> "mono_macro", input |-> stream[i].input,
                                  out |-> out])
    /\ UNCHANGED src

Next ==
    \/ \E i \in DOMAIN stream : ExpandAttr(i)
    \/ \E i \in DOMAIN stream : ExpandPath(i)

\* nothing is left to expand
Done ==
    \A i \in DOMAIN stream :
        /\ stream[i].k # "macro_call"
        /\ stream[i].k = "item" => stream[i].attrs = <<>>

(***************************************************************************)
(* Inputs.                                                                 *)
(***************************************************************************)
GenericParams == {Type("T"), Type("U"), Lifetime("'a"), [k |-> "Const", n |-> "N"]}

GenericLists(n) ==
    {g \in SeqsUpTo(GenericParams, n) :
        \A i, j \in DOMAIN g : i # j => g[i].n # g[j].n}

\* the entries the attribute lists are built from
EqPool ==
    {TypeEqTo(Type(l), Type(r)) : l \in {"T", "U"}, r \in {"i32", "u8"}}
    \cup {TypeEqTo(Lifetime("'a"), Lifetime("'static")),
          TypeEqTo(Type("T"), Lifetime("'static"))}

\* T = i32, U = u8 written out as tokens
RECURSIVE Unparse(_)
Unparse(eqs) ==
    IF eqs = <<>> THEN <<>>
    ELSE <<ToTokens(Head(eqs).type_or_lifetime), TokEq, ToTokens(Head(eqs).param)>>
         \o (IF Len(eqs) = 1 THEN <<>> ELSE <<TokComma>> \o Unparse(Tail(eqs)))

RawToks == {Tok("ident", "T"), Tok("ident", "i32"), Tok("lifetime", "'a"),
            TokEq, TokComma, TokLit}

\* well-formed lists of up to MaxEqs entries, and every token sequence of up
\* to MaxRawToks tokens
AttrInputs ==
    {Unparse(eqs) : eqs \in SeqsUpTo(EqPool, MaxEqs)} \cup SeqsUpTo(RawToks, MaxRawToks)

PathInputs == TypePaths \cup NonPaths

\* one #[mono(..)] on one item, or one mono_macro!(..) call
Init ==
    /\ \/ \E attr \in AttrInputs, g \in GenericLists(MaxGenerics) :
            stream = <<Item("fn", <<attr>>, "foo", g)>>
       \/ \E attr \in AttrInputs : stream = <<Item("struct", <<attr>>, "Foo", <<>>)>>
       \/ \E input \in PathInputs : stream = <<MacroCall(input)>>
    /\ log = <<>>
    /\ src = stream

Spec == Init /\ [][Next]_vars

\* stacked attributes: the two of tests/bare.rs, the documented one written
\* in the other order, one that leaves U out, and one that does not parse
StackAttrs ==
    { Unparse(<<TypeEqTo(Type("T"), Type("i32")), TypeEqTo(Type("U"), Type("String"))>>),
      Unparse(<<TypeEqTo(Type("T"), Type("u8")), TypeEqTo(Type("U"), Type("i32"))>>),
      Unparse(<<TypeEqTo(Type("U"), Type("i64")), TypeEqTo(Type("T"), Type("i32"))>>),
      Unparse(<<TypeEqTo(Type("T"), Type("i32"))>>),
      <<Tok("ident", "T"), TokEq>> }

StackItems(attrs) ==
    { Item("fn", attrs, "foo", <<Type("T"), Type("U")>>),
      Item("fn", attrs, "bar", <<Lifetime("'a"), Type("T")>>),
      Item("struct", attrs, "Foo", <<Type("T")>>) }

\* one item under a stack of up to MaxStack attributes, followed or not by
\* the mono_macro!(foo::<i32, u8>) of tests/bare.rs
InitStack ==
    /\ \E attrs \in SeqsUpTo(StackAttrs, MaxStack) :
       \E item \in StackItems(attrs) :
       \E rest \in {<<>>, <<MacroCall(<<"foo", "::", "<", "i32", ",", "u8", ">">>)>>} :
            stream = <<item>> \o rest
    /\ log = <<>>
    /\ src = stream

SpecStack == InitStack /\ [][Next]_vars

\* up to MaxCalls mono_macro!(..) calls and annotated functions, expanded in
\* any order
InitPath ==
    /\ \E n \in 1..MaxCalls :
            stream \in [1..n -> {MacroCall(input) : input \in PathInputs}
                                \cup {Item("fn", <<Unparse(<<TypeEqTo(Type("T"), Type("i32"))>>)>>,
                                           "foo", <<Type("T")>>)}]
    /\ log = <<>>
    /\ src = stream

SpecPath == InitPath /\ [][Next]_vars

(***************************************************************************)
(* Vocabulary of the properties.  An attribute argument list is described  *)
(* here by the positions of its tokens, independently of the parser.       *)
(***************************************************************************)
IsName(t) == t.k \in {"ident", "lifetime"}

\* name = name {, name = name} with an optional trailing comma, or nothing
WellFormedAttr(toks) ==
    /\ Len(toks) % 4 \in {0, 3}
    /\ \A p \in DOMAIN toks :
          /\ p % 4 \in {1, 3} => IsName(toks[p])
          /\ p % 4 = 2 => toks[p].k = "eq"
          /\ p % 4 = 0 => toks[p].k = "comma"

NameOf(t) == IF t.k = "lifetime" THEN Lifetime(t.n) ELSE Type(t.n)

\* the entries of a well-formed list, in written order
EntriesOf(toks) ==
    [j \in 1..((Len(toks) + 1) \div 4) |->
        [lhs |-> NameOf(toks[4 * j - 3]), rhs |-> toks[4 * j - 1]]]

IsTypeParam(g) == g.k = "Type"

TypeParamsOf(generics) == SelectSeq(generics, IsTypeParam)

HasEntry(g, entries) == \E j \in DOMAIN entries : entries[j].lhs = g

\* every declared type parameter has an entry
Covered(generics, entries) ==
    \A p \in DOMAIN generics : IsTypeParam(generics[p]) => HasEntry(generics[p], entries)

\* the right-hand side of the first entry written for g
FirstRhs(g, entries) ==
    entries[Min({j \in DOMAIN entries : entries[j].lhs = g})].rhs

\* the arguments of an emitted constant, without their commas
ArgsOf(c) == [p \in 1..(Len(c.args) \div 2) |-> c.args[2 * p - 1]]

CommasOf(c) == \A p \in DOMAIN c.args : p % 2 = 0 => c.args[p] = TokComma

IsFnConst(c, ident) ==
    /\ c.k = "const"
    /\ c.form = "turbofish"
    /\ c.callee = <<Tok("ident", ident)>>
    /\ Len(c.args) % 2 = 0
    /\ CommasOf(c)

MonoRuns == {i \in DOMAIN log : log[i].macro = "mono"}
PathRuns == {i \in DOMAIN log : log[i].macro = "mono_macro"}

\* the run's arguments parse, its item is a function, every type parameter is matched
ValidInput(attr, func) ==
    /\ WellFormedAttr(attr)
    /\ func.kind = "fn"
    /\ Covered(func.generics, EntriesOf(attr))

\* the run returned one constant followed by the item it was given
Expanded(e) ==
    /\ Len(e.out) = 2
    /\ IsFnConst(e.out[1], e.func.ident)
    /\ e.out[2] = e.func

\* C1: for a function whose generic parameters are all type parameters and a
\* substitution list with an entry for each of them, written in any order, the
\* expansion succeeds and the i-th emitted argument is the right-hand side of an
\* entry written for the i-th declared parameter.
C1_DeclaredOrder ==
    \A i \in MonoRuns :
        LET e == log[i]
            g == e.func.generics
        IN  (/\ ValidInput(e.attr, e.func)
             /\ \A p \in DOMAIN g : IsTypeParam(g[p]))
            => /\ Expanded(e)
               /\ Len(ArgsOf(e.out[1])) = Len(g)
               /\ \A p \in DOMAIN g :
                     \E j \in DOMAIN EntriesOf(e.attr) :
                        /\ EntriesOf(e.attr)[j].lhs = g[p]
                        /\ ArgsOf(e.out[1])[p] = EntriesOf(e.attr)[j].rhs

\* U = u8, T = i32 on fn foo<T, U> has expanded to foo::<i32, u8,>
C1_Witness ==
    \E i \in MonoRuns :
        /\ log[i].func.generics = <<Type("T"), Type("U")>>
        /\ log[i].attr = Unparse(<<TypeEqTo(Type("U"), Type("u8")),
                                   TypeEqTo(Type("T"), Type("i32"))>>)
        /\ Expanded(log[i])
        /\ ArgsOf(log[i].out[1]) = <<Tok("ident", "i32"), Tok("ident", "u8")>>

\* the unmatched type parameters of a run, by position
Unmatched(e) ==
    {p \in DOMAIN e.func.generics :
        /\ IsTypeParam(e.func.generics[p])
        /\ ~HasEntry(e.func.generics[p], EntriesOf(e.attr))}

\* C2: when a declared type parameter has no entry, the expansion returns the
\* "spelled out" error alone, with no constant declaration, and the matching
\* pass has stopped at the first such parameter in declared order.
C2_FirstMissingFails ==
    \A i \in MonoRuns :
        LET e == log[i] IN
        (WellFormedAttr(e.attr) /\ e.func.kind = "fn" /\ Unmatched(e) # {})
        => /\ e.out = <<CompileError(SpelledOutMsg)>>
           /\ \A t \in DOMAIN e.out : e.out[t].k # "const"
           /\ e.scanned = Min(Unmatched(e))

\* two type parameters are unmatched and the pass stopped at the first
C2_Witness ==
    \E i \in MonoRuns :
        /\ WellFormedAttr(log[i].attr)
        /\ log[i].func.kind = "fn"
        /\ Cardinality(Unmatched(log[i])) = 2
        /\ log[i].scanned = 1
        /\ stream = <<CompileError(SpelledOutMsg)>>

\* the item of the compilation unit, as the k-th expansion of its attributes gets it
ItemAfter(k) == [src[1] EXCEPT !.attrs = SubSeq(src[1].attrs, k + 1, Len(src[1].attrs))]

RunNo(i) == Cardinality({j \in MonoRuns : j <= i})

\* C3: for a valid input the output is one constant declaration followed by
\* one copy of the item, which is the annotated item less the expanded
\* attribute: visibility, signature, body and remaining attributes unchanged.
C3_Passthrough ==
    \A i \in MonoRuns :
        LET e == log[i] IN
        ValidInput(e.attr, e.func)
        => /\ Len(e.out) = 2
           /\ IsFnConst(e.out[1], src[1].ident)
           /\ e.out[2] = ItemAfter(RunNo(i))
           /\ e.out[2].vis = src[1].vis
           /\ e.out[2].body = src[1].body

\* a valid expansion has passed on an item that still carries an attribute
C3_Witness ==
    \E i \in MonoRuns :
        /\ ValidInput(log[i].attr, log[i].func)
        /\ Len(log[i].out) = 2
        /\ log[i].out[2] = ItemAfter(1)
        /\ log[i].out[2].attrs # <<>>

\* the constant an invocation with a valid argument list produces for the item
ExpectedConst(attr, item) ==
    LET tp == TypeParamsOf(item.generics) IN
    [k |-> "const", form |-> "turbofish", callee |-> <<Tok("ident", item.ident)>>,
     args |-> ParamTokens([p \in DOMAIN tp |-> NameOf(FirstRhs(tp[p], EntriesOf(attr)))])]

Stack == src[1].attrs

\* the position in the stack of the first invocation that fails, one past the
\* stack if none does
FirstFailing ==
    Min({j \in DOMAIN Stack : ~ValidInput(Stack[j], src[1])} \cup {Len(Stack) + 1})

\* what the item and its attributes have become in the stream
ItemPart == SubSeq(stream, 1, Len(stream) - (Len(src) - 1))

\* C4: k valid invocations stacked on a function, expanded until none is left,
\* leave k constant declarations, the j-th one for the j-th invocation's own
\* substitution list, followed by one copy of the function; and every
\* application was given the function item, never an emitted constant.
C4_Stacking ==
    /\ \A i \in MonoRuns : log[i].func = ItemAfter(RunNo(i))
    /\ (Done /\ FirstFailing = Len(Stack) + 1)
       => /\ ItemPart = [j \in 1..Len(Stack) |-> ExpectedConst(Stack[j], src[1])]
                         \o <<ItemAfter(Len(Stack))>>
          /\ Cardinality(MonoRuns) = Len(Stack)
          /\ Cardinality({i \in DOMAIN stream : stream[i].k = "item"}) = 1

\* the two attributes of tests/bare.rs have been expanded on foo<T, U>
C4_Witness ==
    /\ Done
    /\ src[1].ident = "foo"
    /\ Len(Stack) = 2
    /\ ItemPart =
         << ConstOfFn("foo", <<Type("i32"), Type("String")>>),
            ConstOfFn("foo", <<Type("u8"), Type("i32")>>),
            Item("fn", <<>>, "foo", <<Type("T"), Type("U")>>) >>

\* C5 as stated: whatever the position of a failing invocation, every
\* invocation of the stack is expanded.
C5_AllExpanded == Done => Cardinality(MonoRuns) = Len(Stack)

\* C5 amended: the invocations written before the first failing one are
\* expanded and keep their constants, the failing one leaves its diagnostic
\* alone, and the invocations after it are dropped with the item, unexpanded.
C5_FailureDropsInner ==
    Done =>
        LET f == FirstFailing
            k == Len(Stack)
        IN  /\ Cardinality(MonoRuns) = (IF f <= k THEN f ELSE k)
            /\ SubSeq(ItemPart, 1, f - 1) = [j \in 1..(f - 1) |-> ExpectedConst(Stack[j], src[1])]
            /\ f <= k => /\ Len(ItemPart) = f
                         /\ ItemPart[f].k = "compile_error"

\* a valid invocation, then a failing one, then a third that is never expanded
C5_Witness ==
    /\ Done
    /\ Len(Stack) = 3
    /\ FirstFailing = 2
    /\ Cardinality(MonoRuns) = 2
    /\ Len(ItemPart) = 2
    /\ ItemPart[1] = ExpectedConst(Stack[1], src[1])
    /\ ItemPart[2].k = "compile_error"

HasLifetimeParam(generics) == \E p \in DOMAIN generics : generics[p].k = "Lifetime"

\* C6: with every type parameter matched, a function that has lifetime
\* parameters expands whether or not they have entries, and when no lifetime
\* parameter has an entry the arguments are those of the type parameters only.
C6_LifetimePermissive ==
    \A i \in MonoRuns :
        LET e == log[i]
            g == e.func.generics
        IN  (ValidInput(e.attr, e.func) /\ HasLifetimeParam(g))
            => /\ Expanded(e)
               /\ (\A p \in DOMAIN g :
                       g[p].k = "Lifetime" => ~HasEntry(g[p], EntriesOf(e.attr)))
                  => e.out[1] = ExpectedConst(e.attr, e.func)

\* T = i32 on fn foo<'a, T> has expanded to foo::<i32,>
C6_Witness ==
    \E i \in MonoRuns :
        /\ log[i].func.generics = <<Lifetime("'a"), Type("T")>>
        /\ log[i].attr = Unparse(<<TypeEqTo(Type("T"), Type("i32"))>>)
        /\ stream = <<ConstOfFn("foo", <<Type("i32")>>), log[i].func>>

IsDiagnosticAlone(out) == Len(out) = 1 /\ out[1].k = "compile_error"

\* C7: when the attribute arguments or the annotated item do not parse, or
\* the mono_macro! input is not a type path, the output is the diagnostic
\* alone: no constant declaration, and the item is not emitted.
C7_ParseFailure ==
    /\ \A i \in MonoRuns :
          (~WellFormedAttr(log[i].attr) \/ log[i].func.kind # "fn")
          => /\ log[i].out = <<CompileError(ParseErrorMsg)>>
             /\ IsDiagnosticAlone(stream)
    /\ \A i \in PathRuns :
          log[i].input \in NonPaths
          => /\ log[i].out = <<CompileError(ParseErrorMsg)>>
             /\ IsDiagnosticAlone(stream)

\* T = 1 on a function has been rejected
C7_Witness ==
    \E i \in MonoRuns :
        /\ log[i].attr = <<Tok("ident", "T"), TokEq, TokLit>>
        /\ log[i].func.kind = "fn"
        /\ log[i].func.generics = <<Type("T")>>
        /\ stream = <<CompileError(ParseErrorMsg)>>

IsMatchedParam(g, entries) == g.k \in {"Type", "Lifetime"} /\ HasEntry(g, entries)

\* C9 as stated: every generic parameter that has an entry of its kind, a
\* lifetime parameter with a lifetime entry included, gets the entry's
\* right-hand side at its position of the emitted argument list.
C9_EveryKindPlaced ==
    \A i \in MonoRuns :
        LET e == log[i]
            entries == EntriesOf(e.attr)
            Placed(g) == IsMatchedParam(g, entries)
            m == SelectSeq(e.func.generics, Placed)
        IN  (ValidInput(e.attr, e.func) /\ Len(e.out) = 2)
            => ArgsOf(e.out[1]) = [p \in DOMAIN m |-> FirstRhs(m[p], entries)]

\* C10: duplicate entries and entries that name no declared parameter never
\* make a list be rejected: if every type parameter has an entry the expansion
\* succeeds, with exactly one argument per declared type parameter, which is
\* the right-hand side of the first entry written for it.
C10_FirstEntryWins ==
    \A i \in MonoRuns :
        LET e == log[i]
            tp == TypeParamsOf(e.func.generics)
        IN  ValidInput(e.attr, e.func)
            => /\ Expanded(e)
               /\ Len(ArgsOf(e.out[1])) = Len(tp)
               /\ \A p \in DOMAIN tp :
                     ArgsOf(e.out[1])[p] = FirstRhs(tp[p], EntriesOf(e.attr))

\* T = i32, T = u8, U = u8 on fn foo<T> has expanded to foo::<i32,>
C10_Witness ==
    \E i \in MonoRuns :
        /\ log[i].func.generics = <<Type("T")>>
        /\ log[i].attr = Unparse(<<TypeEqTo(Type("T"), Type("i32")),
                                   TypeEqTo(Type("T"), Type("u8")),
                                   TypeEqTo(Type("U"), Type("u8"))>>)
        /\ stream = <<ConstOfFn("foo", <<Type("i32")>>), log[i].func>>

====
